---- MODULE Spec2Model ----
(***************************************************************************)
(* Model of pkg/validate/image.go of cri-tools: the "Image Manager"        *)
(* conformance scenarios and the thin wrappers they call.  The container   *)
(* runtime behind internalapi.ImageManagerService is external: every       *)
(* service call returns a nondeterministic result (an error or a value).   *)
(*                                                                         *)
(* A Go string is modelled as a sequence of chunks.  The character ':' is  *)
(* always a chunk of its own, so strings.Contains(s, ":") is membership of *)
(* the chunk ":" and string concatenation is \o.                           *)
(***************************************************************************)
EXTENDS Naturals, Sequences, FiniteSets

VARIABLES
    scenario,   \* which It body runs: "pull" | "status" | "distinct" | "shared"
    args,       \* the image names the It body passes to the helpers
    pc,         \* position in the scenario
    i,          \* loop index of pullImageList / removeImageList
    imageName,  \* local imageName of testPullPublicImage (after defaulting)
    log,        \* the service calls made so far, in order, with their results
    images,     \* result of the unfiltered ListImages of the list scenarios
    count,      \* local count of the list scenarios after the loops
    status,     \* result of ImageStatus in the status scenario
    failed      \* the scenario has failed (Fail was called or it panicked)

vars == <<scenario, args, pc, i, imageName, log, images, count, status, failed>>

----------------------------------------------------------------------------
(* Bounds of the model *)

MaxNameLen == 2      \* chunks in an arbitrary image name
MaxFound == 2        \* records a filtered ListImages may return
MaxImages == 2       \* records an unfiltered ListImages may return
MaxTotalTags == 4    \* repo-tags over all records of an unfiltered list
MaxStatusTags == 1   \* repo-tags of the status returned by ImageStatus
MaxSize == 1         \* Size_ of the status returned by ImageStatus

----------------------------------------------------------------------------
(* Strings *)

SeqsUpTo(S, n) == UNION {[1..k -> S] : k \in 0..n}

\* strings.Contains(s, c) for a one-character c
Contains(s, c) == \E k \in DOMAIN s : s[k] = c

\* unicode lower-casing of one chunk (only the chunks the model uses)
Lower(c) == IF c = "BUSYBOX" THEN "busybox" ELSE c

Fold(s) == [k \in DOMAIN s |-> Lower(s[k])]

\* strings.EqualFold
EqualFold(s, t) == Fold(s) = Fold(t)

testImageName == <<"busybox">>

testImageRef == testImageName \o <<":", "1.26.2">>

busyboxDigestRef == testImageName \o <<"@sha256", ":", "817a12c3">>

LatestSuffix == <<":", "latest">>

\* lines 152-154 and 191-194: if !strings.Contains(imageName, ":") { imageName += ":latest" }
DefaultTag_AlwaysAppend(name) == name \o LatestSuffix

DefaultTag(name) == IF ~Contains(name, ":") THEN name \o LatestSuffix ELSE name

\* the value of testPullPublicImage's local imageName after lines 152-154
TestPullName_NoDefault(name) == name

TestPullName(name) == DefaultTag(name)

----------------------------------------------------------------------------
(* The literals of the list scenarios *)

DistinctList ==
    << <<"busybox", ":", "1-uclibc">>,
       <<"busybox", ":", "1-musl">>,
       <<"busybox", ":", "1-glibc">> >>

SharedList ==
    << <<"busybox", ":", "1.26.2-uclibc">>,
       <<"busybox", ":", "1-uclibc">>,
       <<"busybox", ":", "1">> >>

ExpectedCount == 3

Range(s) == {s[k] : k \in DOMAIN s}

Literals(sc) == IF sc = "distinct" THEN DistinctList ELSE SharedList

\* the repo-tags the runtime may report: the scenario's literals and one
\* of them in another letter case
TagPool(sc) ==
    Range(Literals(sc)) \cup {<<"BUSYBOX">> \o Tail(Literals(sc)[1])}

----------------------------------------------------------------------------
(* Results the runtime may return *)

NoFilter == <<"<no filter>">>

NoStatus == [none |-> TRUE]

NilStatus == [nilptr |-> TRUE]

Statuses ==
    {NilStatus} \cup
    [Id : {"", "sha256:1"},
     RepoTags : SeqsUpTo({testImageRef}, MaxStatusTags),
     Size_ : 0..MaxSize]

RECURSIVE Sum(_)
Sum(s) == IF s = <<>> THEN 0 ELSE Head(s) + Sum(Tail(s))

\* the ways to cut t repo-tags into at most MaxImages records
Shapes(t) == {s \in SeqsUpTo(0..t, MaxImages) : Sum(s) = t}

Split(flat, shape) ==
    [k \in DOMAIN shape |->
        [RepoTags |-> SubSeq(flat, Sum(SubSeq(shape, 1, k - 1)) + 1,
                                   Sum(SubSeq(shape, 1, k)))]]

\* every list of at most MaxImages records with at most MaxTotalTags tags
ImageLists(sc) ==
    UNION {{Split(flat, shape) : shape \in Shapes(Len(flat))} :
              flat \in SeqsUpTo(TagPool(sc), MaxTotalTags)}

----------------------------------------------------------------------------
(* The wrappers *)

Call(op, ref, err, n) == [op |-> op, ref |-> ref, err |-> err, n |-> n]

\* framework.ExpectNoError: the expectation holds iff there is no error
ExpectNoError(err) == ~err

\* lines 190-202
pullPublicImage_Retry(l, name, err) ==
    IF err
    THEN Append(Append(l, Call("PullImage", DefaultTag(name), TRUE, 0)),
                Call("PullImage", DefaultTag(name), TRUE, 0))
    ELSE Append(l, Call("PullImage", DefaultTag(name), FALSE, 0))

pullPublicImage(l, name, err) ==
    Append(l, Call("PullImage", DefaultTag(name), err, 0))

\* lines 205-212
removeImage(l, name, err) == Append(l, Call("RemoveImage", name, err, 0))

\* lines 225-229, the filter being ImageFilter{} or the one of lines 217-219
listImage(l, filter, err, n) ==
    Append(l, Call("ListImages", filter, err, IF err THEN 0 ELSE n))

\* lines 165-173
imageStatus(l, name, err) == Append(l, Call("ImageStatus", name, err, 0))

\* the element a range loop visits in its k-th iteration (lines 177, 184)
RangeElem_Reversed(list, k) == list[Len(list) + 1 - k]

RangeElem(list, k) == list[k]

----------------------------------------------------------------------------
(* The expectations *)

\* line 159: Expect(len(images)).To(Equal(1))
ExpectOneImage_AtLeastOne(n) == n >= 1

ExpectOneImage(n) == n = 1

\* line 147: Expect(len(images)).To(Equal(0))
ExpectNoImage_Always(n) == TRUE

ExpectNoImage(n) == n = 0

\* gomega's BeNil: true of a nil interface value and of a nil chan, func,
\* interface, map, pointer or slice; false of every other value
BeNil(kind, isnil) ==
    /\ kind \in {"invalid", "chan", "func", "interface", "map", "ptr", "slice"}
    /\ isnil

\* lines 68-70; a nil status panics at status.Id
StatusExpectations(st) ==
    /\ st # NilStatus
    /\ ~BeNil("string", FALSE)
    /\ Len(st.RepoTags) # 0
    /\ ~BeNil("uint64", FALSE)

\* lines 90-98 and 122-130: the three ifs on one repo-tag
Matches(tag, lits) == Cardinality({k \in DOMAIN lits : EqualFold(tag, lits[k])})

RECURSIVE CountTags(_, _, _)
CountTags(tags, lits, c) ==
    IF tags = <<>> THEN c
    ELSE CountTags(Tail(tags), lits, c + Matches(Head(tags), lits))

\* lines 87-100
RECURSIVE CountDistinct(_, _)
CountDistinct(imgs, c) ==
    IF imgs = <<>> THEN c
    ELSE CountDistinct(Tail(imgs), CountTags(Head(imgs).RepoTags, DistinctList, c))

\* lines 132-134
ResetCount(c) == IF c < 3 THEN 0 ELSE c

\* lines 119-135
RECURSIVE CountShared(_, _)
CountShared(imgs, c) ==
    IF imgs = <<>> THEN c
    ELSE CountShared(Tail(imgs),
                     ResetCount(CountTags(Head(imgs).RepoTags, SharedList, c)))

----------------------------------------------------------------------------
(* Initial states *)

InitLocals ==
    /\ i = 1
    /\ imageName = <<>>
    /\ log = <<>>
    /\ images = <<>>
    /\ count = 0
    /\ status = NoStatus
    /\ failed = FALSE

\* lines 50-60: the three It bodies that call testPullPublicImage
PullInputs == {testImageRef, testImageName, busyboxDigestRef}

\* the It bodies of lines 50-137
Init ==
    /\ InitLocals
    /\ \/ scenario = "pull" /\ args \in {<<n>> : n \in PullInputs}
                            /\ pc = "testPullPublicImage"
       \/ scenario = "status" /\ args = <<testImageRef>> /\ pc = "pullPublicImage"
       \/ scenario = "distinct" /\ args = DistinctList /\ pc = "pullImageList"
       \/ scenario = "shared" /\ args = SharedList /\ pc = "pullImageList"

\* arbitrary image names
NameChunks == {"busybox", ":", "latest"}

Names == SeqsUpTo(NameChunks, MaxNameLen)

\* lists that hold an untagged and a tagged name, in either order
AnyLists == {<<testImageName, testImageRef>>, <<testImageRef, testImageName>>}

\* the same bodies with the helpers applied to arbitrary names
InitAny ==
    /\ InitLocals
    /\ \/ scenario = "pull" /\ args \in {<<n>> : n \in Names}
                            /\ pc = "testPullPublicImage"
       \/ scenario = "status" /\ args \in {<<n>> : n \in Names}
                              /\ pc = "pullPublicImage"
       \/ scenario \in {"distinct", "shared"} /\ args \in AnyLists
                              /\ pc = "pullImageList"

----------------------------------------------------------------------------
(* Actions *)

\* lines 151-155: default the name, pull
TestPullPublicImage ==
    /\ pc = "testPullPublicImage"
    /\ \E err \in BOOLEAN :
         /\ imageName' = TestPullName(args[1])
         /\ log' = pullPublicImage(log, imageName', err)
         /\ failed' = ~ExpectNoError(err)
         /\ pc' = IF failed' THEN "done" ELSE "checkPulled"
    /\ UNCHANGED <<scenario, args, i, images, count, status>>

\* lines 157-159: the filtered list after the pull
CheckPulled ==
    /\ pc = "checkPulled"
    /\ \E err \in BOOLEAN, n \in 0..MaxFound :
         /\ log' = listImage(log, imageName, err, n)
         /\ failed' = ~(ExpectNoError(err) /\ ExpectOneImage(n))
         /\ pc' = IF failed' THEN "done" ELSE "testRemoveImage"
    /\ UNCHANGED <<scenario, args, i, imageName, images, count, status>>

\* lines 141-143
TestRemoveImage ==
    /\ pc = "testRemoveImage"
    /\ \E err \in BOOLEAN :
         /\ log' = removeImage(log, imageName, err)
         /\ failed' = ~ExpectNoError(err)
         /\ pc' = IF failed' THEN "done" ELSE "checkRemoved"
    /\ UNCHANGED <<scenario, args, i, imageName, images, count, status>>

\* lines 145-147: the filtered list after the remove
CheckRemoved ==
    /\ pc = "checkRemoved"
    /\ \E err \in BOOLEAN, n \in 0..MaxFound :
         /\ log' = listImage(log, imageName, err, n)
         /\ failed' = ~(ExpectNoError(err) /\ ExpectNoImage(n))
         /\ pc' = "done"
    /\ UNCHANGED <<scenario, args, i, imageName, images, count, status>>

\* line 63; when it returns, line 65 registers the deferred removeImage
StatusPull ==
    /\ pc = "pullPublicImage"
    /\ \E err \in BOOLEAN :
         /\ log' = pullPublicImage(log, args[1], err)
         /\ failed' = ~ExpectNoError(err)
         /\ pc' = IF failed' THEN "done" ELSE "imageStatus"
    /\ UNCHANGED <<scenario, args, i, imageName, images, count, status>>

\* lines 67-70
StatusGet ==
    /\ pc = "imageStatus"
    /\ \E err \in BOOLEAN, st \in Statuses :
         /\ log' = imageStatus(log, args[1], err)
         /\ status' = IF err THEN NilStatus ELSE st
         /\ failed' = ~(ExpectNoError(err) /\ StatusExpectations(st))
         /\ pc' = "deferRemoveImage"
    /\ UNCHANGED <<scenario, args, i, imageName, images, count>>

\* line 65, run when the It body returns or panics
DeferredRemoveImage ==
    /\ pc = "deferRemoveImage"
    /\ \E err \in BOOLEAN :
         /\ log' = removeImage(log, args[1], err)
         /\ failed' = (failed \/ ~ExpectNoError(err))
         /\ pc' = "done"
    /\ UNCHANGED <<scenario, args, i, imageName, images, count, status>>

\* lines 81 and 113, 176-180: one iteration of pullImageList
PullImageList ==
    /\ pc = "pullImageList"
    /\ \E err \in BOOLEAN :
         /\ log' = pullPublicImage(log, RangeElem(args, i), err)
         /\ failed' = ~ExpectNoError(err)
         /\ pc' = IF failed' THEN "done"
                  ELSE IF i = Len(args) THEN "listImage" ELSE "pullImageList"
         /\ i' = IF failed' \/ i = Len(args) THEN 1 ELSE i + 1
    /\ UNCHANGED <<scenario, args, imageName, images, count, status>>

\* lines 85-101; line 83 has registered the deferred removeImageList
ListDistinct ==
    /\ pc = "listImage"
    /\ scenario = "distinct"
    /\ \E err \in BOOLEAN, imgs \in ImageLists(scenario) :
         /\ log' = listImage(log, NoFilter, err, Len(imgs))
         /\ images' = IF err THEN <<>> ELSE imgs
         /\ count' = IF err THEN 0 ELSE CountDistinct(imgs, 0)
         /\ failed' = ~(ExpectNoError(err) /\ count' = ExpectedCount)
         /\ pc' = "removeImageList"
    /\ UNCHANGED <<scenario, args, i, imageName, status>>

\* lines 117-136; line 115 has registered the deferred removeImageList
ListShared ==
    /\ pc = "listImage"
    /\ scenario = "shared"
    /\ \E err \in BOOLEAN, imgs \in ImageLists(scenario) :
         /\ log' = listImage(log, NoFilter, err, Len(imgs))
         /\ images' = IF err THEN <<>> ELSE imgs
         /\ count' = IF err THEN 0 ELSE CountShared(imgs, 0)
         /\ failed' = ~(ExpectNoError(err) /\ count' = ExpectedCount)
         /\ pc' = "removeImageList"
    /\ UNCHANGED <<scenario, args, i, imageName, status>>

\* lines 83 and 115, 183-187: one iteration of the deferred removeImageList
RemoveImageList ==
    /\ pc = "removeImageList"
    /\ \E err \in BOOLEAN :
         /\ log' = removeImage(log, RangeElem(args, i), err)
         /\ failed' = (failed \/ ~ExpectNoError(err))
         /\ pc' = IF ~ExpectNoError(err) \/ i = Len(args) THEN "done"
                  ELSE "removeImageList"
         /\ i' = IF pc' = "done" THEN i ELSE i + 1
    /\ UNCHANGED <<scenario, args, imageName, images, count, status>>

Next ==
    \/ TestPullPublicImage
    \/ CheckPulled
    \/ TestRemoveImage
    \/ CheckRemoved
    \/ StatusPull
    \/ StatusGet
    \/ DeferredRemoveImage
    \/ PullImageList
    \/ ListDistinct
    \/ ListShared
    \/ RemoveImageList

Spec == Init /\ [][Next]_vars

SpecAny == InitAny /\ [][Next]_vars

----------------------------------------------------------------------------
(* Vocabulary of the properties *)

Done == pc = "done"

Passed == Done /\ ~failed

Ops(l) == [k \in DOMAIN l |-> l[k].op]

IsPrefix(s, t) == Len(s) <= Len(t) /\ s = SubSeq(t, 1, Len(s))

Last(l) == l[Len(l)]

ListScenario == scenario \in {"distinct", "shared"}

HasColon(name) == \E k \in DOMAIN name : name[k] = ":"

\* number of repo-tags over all records that equal lit up to letter case
Occurrences(imgs, lit) ==
    Cardinality({<<r, t>> \in (DOMAIN imgs) \X (1..MaxTotalTags) :
                    /\ t \in DOMAIN imgs[r].RepoTags
                    /\ Fold(imgs[r].RepoTags[t]) = Fold(lit)})

\* some one record carries every tag of lits (up to letter case)
SingleRecordHasAll(imgs, lits) ==
    \E r \in DOMAIN imgs :
        \A k \in DOMAIN lits :
            \E t \in DOMAIN imgs[r].RepoTags :
                Fold(imgs[r].RepoTags[t]) = Fold(lits[k])

NoCallFailed == \A k \in DOMAIN log : ~log[k].err

----------------------------------------------------------------------------
(* C1: a run of testPullPublicImage passes only if the filtered list       *)
(* returned exactly one record right after the pull and exactly zero       *)
(* records right after the remove; any other count at either point fails   *)
(* the scenario.                                                           *)
C1_PassOnlyIfOneThenZero ==
    (scenario = "pull" /\ Done) =>
        /\ ~failed =>
             /\ Ops(log) = <<"PullImage", "ListImages", "RemoveImage", "ListImages">>
             /\ ~log[2].err /\ log[2].n = 1
             /\ ~log[4].err /\ log[4].n = 0
        /\ (Len(log) >= 2 /\ log[2].n # 1) => failed
        /\ (Len(log) >= 4 /\ log[4].n # 0) => failed

C1_Witness ==
    /\ scenario = "pull" /\ Passed
    /\ Len(log) = 4 /\ log[2].n = 1 /\ log[4].n = 0

\* one step of a scenario: one wrapper call, one service invocation
C2_Step ==
    /\ Len(log') = Len(log) + 1
    /\ SubSeq(log', 1, Len(log)) = log
    /\ Last(log').err =>
         /\ failed'
         /\ \/ pc' = "done"
            \/ pc = "imageStatus" /\ pc' = "deferRemoveImage"
            \/ pc = "listImage" /\ pc' = "removeImageList"

C2_AfterError ==
    \A k \in DOMAIN log :
        log[k].err =>
            /\ failed
            /\ \A j \in DOMAIN log :
                 j > k => /\ log[j].op = "RemoveImage"
                          /\ log[k].op \in {"ImageStatus", "ListImages"}
                          /\ scenario # "pull"

(* C2: every wrapper invokes the service exactly once per call and never   *)
(* retries; when that invocation returns an error the scenario fails at    *)
(* that point and no later statement of the body runs (only the cleanup a  *)
(* defer registered earlier still runs).                                   *)
C2_OneCallNoRetry == [][C2_Step]_vars /\ []C2_AfterError

C2_Witness ==
    /\ scenario = "pull" /\ Done /\ failed
    /\ Len(log) = 3 /\ log[3].op = "RemoveImage" /\ log[3].err

(* C3: in the status scenario and in both list scenarios, whenever the     *)
(* scenario exits, RemoveImage has been called for every image reference   *)
(* the scenario successfully pulled.                                       *)
C3_CleanupGuaranteed ==
    (scenario # "pull" /\ Done) =>
        \A k \in DOMAIN log :
            (log[k].op = "PullImage" /\ ~log[k].err) =>
                \E j \in DOMAIN log :
                    log[j].op = "RemoveImage" /\ log[j].ref = log[k].ref

(* C4: the reference passed to PullImage contains ':'; a name without ':'  *)
(* gets ":latest" appended exactly once, also on the pull-scenario path    *)
(* where the defaulting runs twice, and a name with ':' passes unchanged.  *)
C4_DefaultedOnce ==
    \A k \in DOMAIN log :
        log[k].op = "PullImage" =>
            /\ k <= Len(args)
            /\ HasColon(log[k].ref)
            /\ HasColon(args[k]) => log[k].ref = args[k]
            /\ ~HasColon(args[k]) => log[k].ref = args[k] \o <<":", "latest">>

C4_Witness ==
    /\ scenario = "pull" /\ ~HasColon(args[1]) /\ Len(args[1]) > 0
    /\ Len(log) >= 1 /\ log[1].op = "PullImage"
    /\ log[1].ref = args[1] \o <<":", "latest">>

(* C5: the distinct-images list scenario passes only if each of the three  *)
(* pulled repo-tags appears exactly once across all records of the         *)
(* unfiltered list.                                                        *)
C5_EachTagExactlyOnce ==
    (scenario = "distinct" /\ Passed) =>
        \A k \in DOMAIN DistinctList : Occurrences(images, DistinctList[k]) = 1

(* C6: the shared-image list scenario passes if and only if the unfiltered *)
(* list contains a single record whose RepoTags include all three pulled   *)
(* tags.                                                                   *)
C6_PassIffSingleRecordHasAll ==
    (scenario = "shared" /\ Done /\ NoCallFailed) =>
        (~failed <=> SingleRecordHasAll(images, SharedList))

(* C7: the status scenario passes only if the status has a non-empty Id,   *)
(* at least one repo-tag and a non-empty Size.                             *)
C7_StatusFieldsNonEmpty ==
    (scenario = "status" /\ Passed) =>
        /\ status # NilStatus
        /\ status.Id # ""
        /\ Len(status.RepoTags) >= 1
        /\ status.Size_ # 0

(* C8: in the pull scenario the calls occur in the order PullImage,        *)
(* ListImages, RemoveImage, ListImages, each at most once; RemoveImage is  *)
(* called only if the pull succeeded and the first list returned exactly   *)
(* one record, so a run failing at the first list leaves the image pulled. *)
C8_PullScenarioOrder ==
    scenario = "pull" =>
        /\ IsPrefix(Ops(log), <<"PullImage", "ListImages", "RemoveImage", "ListImages">>)
        /\ Len(log) >= 3 => (~log[1].err /\ ~log[2].err /\ log[2].n = 1)
        /\ (Done /\ Len(log) >= 2 /\ (log[2].err \/ log[2].n # 1)) =>
              /\ failed
              /\ ~log[1].err
              /\ \A k \in DOMAIN log : log[k].op # "RemoveImage"

C8_Witness ==
    /\ scenario = "pull" /\ Done /\ failed
    /\ Len(log) = 2 /\ ~log[1].err /\ ~log[2].err /\ log[2].n = 2

(* C9: pullImageList and removeImageList call the service once per element *)
(* in list order and stop at the first error: after the failing call no    *)
(* call is made for a later element, so the earlier references of a failed *)
(* pullImageList stay pulled and the later ones of a failed                *)
(* removeImageList stay present.                                           *)
C9_ListsInOrderStopAtError ==
    ListScenario =>
        LET n == Len(args) IN
        \A k \in DOMAIN log :
            /\ k <= n =>
                 /\ log[k].op = "PullImage" /\ log[k].ref = args[k]
                 /\ log[k].err =>
                      /\ Len(log) = k /\ Done
                      /\ \A j \in 1..(k - 1) : ~log[j].err
            /\ k = n + 1 => log[k].op = "ListImages"
            /\ k > n + 1 =>
                 /\ log[k].op = "RemoveImage" /\ log[k].ref = args[k - n - 1]
                 /\ k <= 2 * n + 1
                 /\ log[k].err => (Len(log) = k /\ Done)

C9_Witness ==
    /\ ListScenario /\ Done
    /\ Len(log) = Len(args) + 2 /\ Last(log).err
    /\ Last(log).ref = args[1]

(* C10: within one run of testPullPublicImage the same reference is passed *)
(* to PullImage, to both filtered ListImages and to RemoveImage; the pairs *)
(* pullPublicImage/removeImage and pullImageList/removeImageList pull an   *)
(* untagged name as name:latest but remove it as the bare name.            *)
C10_SameReference ==
    /\ scenario = "pull" => \A k \in DOMAIN log : log[k].ref = log[1].ref
    /\ scenario # "pull" =>
         LET n == Len(args) IN
         \A k \in DOMAIN log :
             log[k].op = "RemoveImage" =>
                 LET a == args[k - n - 1]
                     p == log[k - n - 1]
                 IN /\ log[k].ref = a
                    /\ p.op = "PullImage"
                    /\ ~HasColon(a) => (p.ref = a \o <<":", "latest">> /\ p.ref # log[k].ref)
                    /\ HasColon(a) => p.ref = log[k].ref

C10_Witness ==
    /\ scenario = "status" /\ Done /\ ~HasColon(args[1])
    /\ Len(log) = 3 /\ log[3].op = "RemoveImage"
    /\ log[1].ref # log[3].ref

====
